---- MODULE Spec2Model ----
(***************************************************************************)
(* Model of the "Synchronize to Playlist" plugin                           *)
(* (quodlibet/ext/events/synchronize_to_playlist.py).                      *)
(*                                                                         *)
(* Text.  A Python str is a sequence of atoms.  An atom is one character;  *)
(* a run of letters and digits that holds none of the characters the code  *)
(* treats specially ("/", "\n", ":", a combining mark) may be written as   *)
(* one atom ("music", "#EXTM3U").  Concatenation is \o, a join inserts the *)
(* separator's atoms, a split looks for the separator's atoms.             *)
(*                                                                         *)
(* Platform: POSIX (os.name # "nt", os.sep = "/"), UTF-8 locale.           *)
(***************************************************************************)
EXTENDS Integers, Sequences, FiniteSets, TLC

VARIABLES
    existing,   \* [ns -> set of names]: saved searches (queries.saved) and
                \* playlists (app.library.playlists) that exist right now
    files,      \* [ns -> NoFile or text]: queries.sync and playlists.sync
    panel,      \* "closed" before PluginPreferences ran, "open" afterwards
    boxes,      \* [ns -> set of names]: names that have a check button
    active,     \* [ns -> set of names]: check buttons that are active
    entry,      \* [dest, remove_root, new_root]: text of the entry widgets
    tmp,        \* tmp_export_path, tmp_remove_root, tmp_new_root
    config,     \* the three values in the config store
    out,        \* output files on disk: [path -> document text]
    last,       \* what the last handler did (dialogs, exception, writes)
    call        \* the call under test in the function-level specifications

vars == <<existing, files, panel, boxes, active, entry, tmp, config, out, last, call>>

-----------------------------------------------------------------------------
(* Bounds *)

\* longest sync-list file (in atoms) a toggle may still produce
MaxFileLen == 4
\* most names handed to write_sync_* in the store specification
MaxNames == 3
\* most ExportedFile records handed to __m3u_export in SpecM3u
MaxRecords == 3
\* longest name (in characters) handed to _make_safe_name in SpecSafeName
MaxNameLen == 3

-----------------------------------------------------------------------------
(* Text helpers (Python str methods) *)

NL == "\n"

\* str.startswith
StartsWith(s, p) == Len(s) >= Len(p) /\ SubSeq(s, 1, Len(p)) = p

\* str.endswith
EndsWith(s, p) == Len(s) >= Len(p) /\ SubSeq(s, Len(s) - Len(p) + 1, Len(s)) = p

\* sep.join(list)
RECURSIVE Join(_, _)
Join(sep, list) ==
    IF list = <<>> THEN <<>>
    ELSE IF Len(list) = 1 THEN list[1]
    ELSE list[1] \o sep \o Join(sep, Tail(list))

\* the positions of character c in s
Cuts(s, c) == {k \in 1..Len(s) : s[k] = c}

\* the j-th smallest element of a set of numbers
Kth(P, j) == CHOOSE k \in P : Cardinality({m \in P : m < k}) = j - 1

\* s.split(c), c one character: always at least one piece
Split(s, c) ==
    LET P == Cuts(s, c)
        n == Cardinality(P)
        cut(j) == IF j = 0 THEN 0 ELSE IF j > n THEN Len(s) + 1 ELSE Kth(P, j)
    IN [j \in 1..(n + 1) |-> SubSeq(s, cut(j - 1) + 1, cut(j) - 1)]

\* file.readlines() in text mode: every line keeps its "\n"; a last line
\* without terminator is returned as it is; an empty file has no lines
ReadLines(s) ==
    LET P == Cuts(s, NL)
        n == Cardinality(P)
        cut(j) == IF j = 0 THEN 0 ELSE Kth(P, j)
        whole == [j \in 1..n |-> SubSeq(s, cut(j - 1) + 1, cut(j))]
    IN IF cut(n) < Len(s) THEN Append(whole, SubSeq(s, cut(n) + 1, Len(s))) ELSE whole

\* the elements of a list, as a set
ToSet(list) == {list[i] : i \in 1..Len(list)}

\* every list that holds each element of S once: the orders list(set) can give
RECURSIVE Orders(_)
Orders(S) ==
    IF S = {} THEN {<<>>}
    ELSE UNION {{<<x>> \o rest : rest \in Orders(S \ {x})} : x \in S}

-----------------------------------------------------------------------------
(* Sync-list store *)

NS == {"queries", "playlists"}

\* a file: whether it exists, and its text
NoFile == [exists |-> FALSE, text |-> <<>>]
File(text) == [exists |-> TRUE, text |-> text]

\* the separator write_sync_* joins with: the two characters "/" and "n"
SyncSep == <<"/", "n">>

\* write_sync_* without its early return
WriteSync_no_return(file, names) == File(Join(SyncSep, names))

\* write_sync_queries / write_sync_playlists: the file afterwards
WriteSync(file, names) ==
    IF ~file.exists /\ Len(names) = 0 THEN file
    ELSE File(Join(SyncSep, names))

\* write_sync_* with create=True: whether the parent directory of the file
\* exists afterwards, dir telling whether it did before
WriteSyncDir(file, names, dir) ==
    IF ~file.exists /\ Len(names) = 0 THEN dir
    ELSE TRUE

\* what read_sync_* returns: a list, or None (none = TRUE)
List(l) == [none |-> FALSE, list |-> l]
None == [none |-> TRUE, list |-> <<>>]

\* read_sync_* without its os.path.exists test: open raises
\* FileNotFoundError, an OSError, for a missing file
ReadSync_no_exists_test(file, ioerror) ==
    IF ~file.exists \/ ioerror THEN None
    ELSE List(ReadLines(file.text))

\* read_sync_queries / read_sync_playlists: the returned value; the function
\* falls off its end (returns None) when the read raises OSError
ReadSync(file, ioerror) ==
    IF ~file.exists THEN List(<<>>)
    ELSE IF ioerror THEN None
    ELSE List(ReadLines(file.text))

-----------------------------------------------------------------------------
(* Paths (posixpath) *)

SEP == "/"
curdir == <<".">>
pardir == <<".", ".">>

\* the working directory of the process, which relative roots resolve against
Cwd == <<SEP, "home">>

\* os.path.isabs
isabs(p) == StartsWith(p, <<SEP>>)

\* os.path.join(a, b)
PathJoin(a, b) ==
    IF StartsWith(b, <<SEP>>) THEN b
    ELSE IF a = <<>> \/ EndsWith(a, <<SEP>>) THEN a \o b
    ELSE a \o <<SEP>> \o b

\* the loop of os.path.normpath over the components
RECURSIVE NormComps(_, _, _)
NormComps(comps, acc, rooted) ==
    IF comps = <<>> THEN acc
    ELSE LET c == Head(comps) IN
         IF c = <<>> \/ c = curdir THEN NormComps(Tail(comps), acc, rooted)
         ELSE IF \/ c # pardir
                 \/ (~rooted /\ acc = <<>>)
                 \/ (acc # <<>> /\ acc[Len(acc)] = pardir)
              THEN NormComps(Tail(comps), Append(acc, c), rooted)
         ELSE IF acc # <<>>
              THEN NormComps(Tail(comps), SubSeq(acc, 1, Len(acc) - 1), rooted)
         ELSE NormComps(Tail(comps), acc, rooted)

\* os.path.normpath
normpath(path) ==
    IF path = <<>> THEN curdir
    ELSE LET slashes == IF ~StartsWith(path, <<SEP>>) THEN <<>>
                        ELSE IF StartsWith(path, <<SEP, SEP>>)
                                /\ ~StartsWith(path, <<SEP, SEP, SEP>>)
                             THEN <<SEP, SEP>>
                        ELSE <<SEP>>
             body == Join(<<SEP>>, NormComps(Split(path, SEP), <<>>, slashes # <<>>))
             res == slashes \o body
         IN IF res = <<>> THEN curdir ELSE res

\* os.path.abspath
abspath(path) == normpath(IF isabs(path) THEN path ELSE PathJoin(Cwd, path))

\* [x for x in l if x]
RECURSIVE NonEmpty(_)
NonEmpty(l) ==
    IF l = <<>> THEN <<>>
    ELSE (IF Head(l) = <<>> THEN <<>> ELSE <<Head(l)>>) \o NonEmpty(Tail(l))

\* len(os.path.commonprefix([a, b])) of two lists
RECURSIVE CommonLen(_, _)
CommonLen(a, b) ==
    IF a = <<>> \/ b = <<>> \/ Head(a) # Head(b) THEN 0
    ELSE 1 + CommonLen(Tail(a), Tail(b))

\* os.path.relpath(path, start), path not empty
relpath(path, start) ==
    LET start_list == NonEmpty(Split(abspath(start), SEP))
        path_list == NonEmpty(Split(abspath(path), SEP))
        i == CommonLen(start_list, path_list)
        rel_list == [k \in 1..(Len(start_list) - i) |-> pardir]
                    \o SubSeq(path_list, i + 1, Len(path_list))
    IN IF rel_list = <<>> THEN curdir ELSE Join(<<SEP>>, rel_list)

-----------------------------------------------------------------------------
(* File names *)

\* the character U+00E9 (e with acute), the combining mark U+0301 and the
\* ligature U+FB01 (fi), which has a compatibility decomposition
Eacute == "e+acute"
Acute == "+acute"
Ligature == "fi-ligature"

\* unicodedata.normalize("NFKD", s)
RECURSIVE Nfkd(_)
Nfkd(s) ==
    IF s = <<>> THEN <<>>
    ELSE (IF Head(s) = Eacute THEN <<"e", Acute>>
          ELSE IF Head(s) = Ligature THEN <<"f", "i">>
          ELSE <<Head(s)>>) \o Nfkd(Tail(s))

\* unicodedata.combining(c) # 0
combining(c) == c = Acute

\* the characters of s that are not in the set drop, in order
RECURSIVE Without(_, _)
Without(s, drop) ==
    IF s = <<>> THEN <<>>
    ELSE (IF Head(s) \in drop THEN <<>> ELSE <<Head(s)>>) \o Without(Tail(s), drop)

\* characters that are not allowed in Windows paths
Win32Bad == {"\\", ":", "*", "?", ";", "\"", "<", ">", "|"}

\* quodlibet.util.path.strip_win32_incompat_from_path
strip_win32_incompat_from_path(s) == Without(s, Win32Bad)

\* _make_safe_name without the removal of the combining marks
make_safe_name_keeps_marks(input_path) ==
    strip_win32_incompat_from_path(Nfkd(input_path))

\* _make_safe_name
make_safe_name(input_path) ==
    LET decomposed == Nfkd(input_path)
        marks == {c \in ToSet(decomposed) : combining(c)}
    IN strip_win32_incompat_from_path(Without(decomposed, marks))

-----------------------------------------------------------------------------
(* M3U export *)

DigitChars == <<"0", "1", "2", "3", "4", "5", "6", "7", "8", "9">>

RECURSIVE Digits(_)
Digits(n) ==
    IF n < 10 THEN <<DigitChars[n + 1]>>
    ELSE Digits(n \div 10) \o <<DigitChars[(n % 10) + 1]>>

\* "%d" % n
FormatD(n) == IF n < 0 THEN <<"-">> \o Digits(-n) ELSE Digits(n)

\* s.replace(c, new), c one character
Replace(s, c, new) ==
    Join(<<>>, [k \in 1..Len(s) |-> IF s[k] = c THEN new ELSE <<s[k]>>])

\* the loop body of __get_song_files rewriting the path of a stream as well
song_file_rewrites_streams(song, remove_root, new_root) ==
    LET rel == IF Len(remove_root) > 0
               THEN relpath(song.filename, remove_root)
               ELSE song.filename
        path == IF Len(remove_root) > 0 /\ Len(new_root) > 0
                THEN PathJoin(new_root, rel)
                ELSE rel
    IN IF song.uri
       THEN [path |-> path, title |-> song.title, length |-> -1]
       ELSE [path |-> path,
             title |-> Replace(song.people, NL, <<", ">>)
                       \o <<" - ">> \o song.titleversion,
             length |-> song.length]

\* the loop body of __get_song_files taking the length of a stream from the
\* song
song_file_stream_length(song, remove_root, new_root) ==
    LET rel == IF Len(remove_root) > 0
               THEN relpath(song.filename, remove_root)
               ELSE song.filename
        path == IF Len(remove_root) > 0 /\ Len(new_root) > 0
                THEN PathJoin(new_root, rel)
                ELSE rel
    IN IF song.uri
       THEN [path |-> song.filename, title |-> song.title, length |-> song.length]
       ELSE [path |-> path,
             title |-> Replace(song.people, NL, <<", ">>)
                       \o <<" - ">> \o song.titleversion,
             length |-> song.length]

\* the loop body of __get_song_files without its os.path.join with new_root
song_file_no_new_root(song, remove_root, new_root) ==
    IF song.uri
    THEN [path |-> song.filename, title |-> song.title, length |-> -1]
    ELSE [path |-> IF Len(remove_root) > 0
                   THEN relpath(song.filename, remove_root)
                   ELSE song.filename,
          title |-> Replace(song.people, NL, <<", ">>)
                    \o <<" - ">> \o song.titleversion,
          length |-> song.length]

\* the body of the loop of __get_song_files: the record built for one song
song_file(song, remove_root, new_root) ==
    IF song.uri
    THEN [path |-> song.filename, title |-> song.title, length |-> -1]
    ELSE LET rel == IF Len(remove_root) > 0
                    THEN relpath(song.filename, remove_root)
                    ELSE song.filename
             path == IF Len(remove_root) > 0 /\ Len(new_root) > 0
                     THEN PathJoin(new_root, rel)
                     ELSE rel
         IN [path |-> path,
             title |-> Replace(song.people, NL, <<", ">>)
                       \o <<" - ">> \o song.titleversion,
             length |-> song.length]

\* __get_song_files building its list back to front
get_song_files_reversed(songs, remove_root, new_root) ==
    [i \in 1..Len(songs) |->
        song_file(songs[Len(songs) + 1 - i], remove_root, new_root)]

\* __get_song_files
get_song_files(songs, remove_root, new_root) ==
    [i \in 1..Len(songs) |-> song_file(songs[i], remove_root, new_root)]

\* the loop body of __m3u_export without the newline after the path
m3u_entry_no_newline(f) ==
    <<"#EXTINF:">> \o FormatD(f.length) \o <<",">> \o f.title \o <<NL>>
    \o f.path

\* the two lines the loop of __m3u_export adds for one file
m3u_entry(f) ==
    <<"#EXTINF:">> \o FormatD(f.length) \o <<",">> \o f.title \o <<NL>>
    \o f.path \o <<NL>>

\* the text __m3u_export builds
m3u_text(fs) ==
    <<"#EXTM3U", NL>> \o Join(<<>>, [i \in 1..Len(fs) |-> m3u_entry(fs[i])])

-----------------------------------------------------------------------------
(* The library the plugin reads: songs, playlists, saved searches *)

A == <<"a">>
B == <<"b">>
C == <<"c">>
Names == {A, B, C}

Song1 == [uri |-> FALSE, filename |-> <<SEP, "music", SEP, "rock", SEP, "song", ".", "mp3">>,
          title |-> <<"One">>, people |-> <<"Ann", NL, "Bob">>,
          titleversion |-> <<"One">>, length |-> 180]
Song2 == [uri |-> TRUE, filename |-> <<"http", ":", SEP, SEP, "radio">>,
          title |-> <<"Radio">>, people |-> <<>>,
          titleversion |-> <<"Radio">>, length |-> 0]
Song3 == [uri |-> FALSE, filename |-> <<SEP, "tmp", SEP, "x", ".", "mp3">>,
          title |-> <<"Two">>, people |-> <<"Cy">>,
          titleversion |-> <<"Two">>, length |-> 7]

\* app.library.itervalues(), in iteration order
Library == <<Song1, Song2, Song3>>

\* list(app.library.playlists[name])
PlaylistSongs(name) ==
    IF name = A THEN <<Song1, Song2, Song1>>
    ELSE IF name = B THEN <<Song3>>
    ELSE <<>>

\* queries[name].search(song)
QuerySearch(name, song) ==
    IF name = A THEN song \in {Song2, Song3}
    ELSE IF name = B THEN TRUE
    ELSE FALSE

\* the loop of save_query_to_m3u over the library
RECURSIVE Matching(_, _)
Matching(name, songs) ==
    IF songs = <<>> THEN <<>>
    ELSE (IF QuerySearch(name, Head(songs)) THEN <<Head(songs)>> ELSE <<>>)
         \o Matching(name, Tail(songs))

CurrentSongs(ns, name) ==
    IF ns = "playlists" THEN PlaylistSongs(name) ELSE Matching(name, Library)

-----------------------------------------------------------------------------
(* State *)

Settings(d, r, n) == [dest |-> d, remove_root |-> r, new_root |-> n]

\* what a handler reports: the dialogs it showed (their titles, in order),
\* the exception it raised, the output files it wrote (in order), the I/O
\* faults it met (sync files whose read failed, output paths whose open
\* failed), and the paths its "Unable to export playlist" dialogs named
Report(op, ns, name, raised, errors, written, rerr, oerr) ==
    [op |-> op, ns |-> ns, name |-> name, raised |-> raised, errors |-> errors,
     written |-> written, rerr |-> rerr, oerr |-> oerr, failed |-> <<>>]

Quiet(op, ns, name) == Report(op, ns, name, "none", <<>>, <<>>, {}, {})

NoCall == [fn |-> "none", pc |-> "none"]

\* the state when the plugin object exists and no panel was opened yet, in
\* an application that holds the saved searches and playlists of world
Constructed(world) ==
    /\ existing = world
    /\ panel = "closed"
    /\ boxes = [ns \in NS |-> {}]
    /\ active = [ns \in NS |-> {}]
    /\ entry = Settings(<<>>, <<>>, <<>>)
    /\ tmp = Settings(<<>>, <<>>, <<>>)
    /\ config = Settings(<<>>, <<>>, <<>>)
    /\ last = Quiet("init", "", <<>>)

InitWorld(world) ==
    /\ Constructed(world)
    /\ files = [ns \in NS |-> NoFile]
    /\ out = <<>>
    /\ call = NoCall

\* the sync files whose read can fail: those that exist
Readable == {ns \in NS : files[ns].exists}

-----------------------------------------------------------------------------
(* PluginPreferences *)

\* lines 72-84 and 96-108 for one namespace: read, intersect, re-save, and
\* build the check buttons.  order is the order list(set) happens to give.
Reconcile(ns, file, ioerror, order) ==
    LET r == ReadSync(file, ioerror) IN
    IF r.none
    THEN [raised |-> TRUE, file |-> file, active |-> {}]
    ELSE [raised |-> FALSE, file |-> WriteSync(file, order), active |-> ToSet(order)]

\* the names list(set(existing).intersection(read)) holds
Kept(ns, file, ioerror) ==
    LET r == ReadSync(file, ioerror) IN
    IF r.none THEN {} ELSE existing[ns] \cap ToSet(r.list)

PluginPreferences(rerr) ==
    \E oq \in Orders(Kept("queries", files["queries"], "queries" \in rerr)),
       op \in Orders(Kept("playlists", files["playlists"], "playlists" \in rerr)) :
        LET q == Reconcile("queries", files["queries"], "queries" \in rerr, oq)
            p == Reconcile("playlists", files["playlists"], "playlists" \in rerr, op)
        IN
        IF q.raised
        THEN \* set.intersection(None): TypeError before any widget exists
             /\ panel' = "closed"
             /\ boxes' = [ns \in NS |-> {}]
             /\ active' = [ns \in NS |-> {}]
             /\ last' = Report("open", "", <<>>, "TypeError", <<>>, <<>>, rerr, {})
             /\ UNCHANGED <<existing, files, entry, tmp, config, out, call>>
        ELSE IF p.raised
        THEN /\ files' = [files EXCEPT !["queries"] = q.file]
             /\ panel' = "closed"
             /\ boxes' = [ns \in NS |-> {}]
             /\ active' = [ns \in NS |-> {}]
             /\ last' = Report("open", "", <<>>, "TypeError", <<>>, <<>>, rerr, {})
             /\ UNCHANGED <<existing, entry, tmp, config, out, call>>
        ELSE /\ files' = [files EXCEPT !["queries"] = q.file, !["playlists"] = p.file]
             /\ panel' = "open"
             /\ boxes' = existing
             /\ active' = [ns \in NS |-> IF ns = "queries" THEN q.active ELSE p.active]
             /\ entry' = config
             /\ tmp' = config
             /\ last' = Report("open", "", <<>>, "none", <<>>, <<>>, rerr, {})
             /\ UNCHANGED <<existing, config, out, call>>

-----------------------------------------------------------------------------
(* Check buttons *)

\* a toggle that saves its list to the files of both namespaces
ToggleOn_saves_both(ns, name, ioerror) ==
    /\ panel = "open"
    /\ name \in boxes[ns] \ active[ns]
    /\ active' = [active EXCEPT ![ns] = @ \cup {name}]
    /\ LET r == ReadSync(files[ns], ioerror) IN
       IF r.none
       THEN \* None.append: AttributeError
            /\ last' = Report("toggle_on", ns, name, "AttributeError", <<>>, <<>>, {ns}, {})
            /\ UNCHANGED files
       ELSE LET save == Append(r.list, name) IN
            /\ Len(Join(SyncSep, save)) <= MaxFileLen
            /\ files' = [n \in NS |-> WriteSync(files[n], save)]
            /\ last' = Quiet("toggle_on", ns, name)
    /\ UNCHANGED <<existing, panel, boxes, entry, tmp, config, out, call>>

\* _toggle_save_query / _toggle_save_playlist, the button now active
ToggleOn(ns, name, ioerror) ==
    /\ panel = "open"
    /\ name \in boxes[ns] \ active[ns]
    /\ active' = [active EXCEPT ![ns] = @ \cup {name}]
    /\ LET r == ReadSync(files[ns], ioerror) IN
       IF r.none
       THEN \* None.append: AttributeError
            /\ last' = Report("toggle_on", ns, name, "AttributeError", <<>>, <<>>, {ns}, {})
            /\ UNCHANGED files
       ELSE LET save == Append(r.list, name) IN
            /\ Len(Join(SyncSep, save)) <= MaxFileLen
            /\ files' = [files EXCEPT ![ns] = WriteSync(@, save)]
            /\ last' = Quiet("toggle_on", ns, name)
    /\ UNCHANGED <<existing, panel, boxes, entry, tmp, config, out, call>>

\* the exception the else branch raises: set(None) and list(None) are
\* TypeErrors, set.remove of a missing element is a KeyError
ToggleOffRaises(r, name) ==
    IF r.none THEN "TypeError"
    ELSE IF name \notin ToSet(r.list) THEN "KeyError"
    ELSE "TypeError"

\* _toggle_save_query / _toggle_save_playlist, the button now inactive
ToggleOff(ns, name, ioerror) ==
    /\ panel = "open"
    /\ name \in active[ns]
    /\ active' = [active EXCEPT ![ns] = @ \ {name}]
    /\ LET r == ReadSync(files[ns], ioerror) IN
       last' = Report("toggle_off", ns, name, ToggleOffRaises(r, name), <<>>, <<>>,
                      IF r.none THEN {ns} ELSE {}, {})
    /\ UNCHANGED <<existing, files, panel, boxes, entry, tmp, config, out, call>>

\* a saved search or a playlist is deleted in the application
DeleteEntry(ns, name) ==
    /\ name \in existing[ns]
    /\ existing' = [existing EXCEPT ![ns] = @ \ {name}]
    /\ last' = Quiet("delete", ns, name)
    /\ UNCHANGED <<files, panel, boxes, active, entry, tmp, config, out, call>>

-----------------------------------------------------------------------------
(* Entry fields *)

\* texts a user types into the three entries
DestTexts == {<<>>, <<".", SEP, "path">>, <<SEP, "dest">>}
RemoveRootTexts == {<<>>, <<SEP, "music">>}
NewRootTexts == {<<>>, <<SEP, "new">>}

\* _destination_path_changed storing the text in the configuration as well
DestinationPathChanged_saves(text) ==
    /\ panel = "open"
    /\ text # entry.dest
    /\ entry' = [entry EXCEPT !.dest = text]
    /\ tmp' = [tmp EXCEPT !.dest = text]
    /\ config' = [config EXCEPT !.dest = text]
    /\ last' = Quiet("changed", "", <<>>)
    /\ UNCHANGED <<existing, files, panel, boxes, active, out, call>>

\* _destination_path_changed ("changed" fires when the text changes)
DestinationPathChanged(text) ==
    /\ panel = "open"
    /\ text # entry.dest
    /\ entry' = [entry EXCEPT !.dest = text]
    /\ tmp' = [tmp EXCEPT !.dest = text]
    /\ last' = Quiet("changed", "", <<>>)
    /\ UNCHANGED <<existing, files, panel, boxes, active, config, out, call>>

\* _remove_root_changed
RemoveRootChanged(text) ==
    /\ panel = "open"
    /\ text # entry.remove_root
    /\ entry' = [entry EXCEPT !.remove_root = text]
    /\ tmp' = [tmp EXCEPT !.remove_root = text]
    /\ last' = Quiet("changed", "", <<>>)
    /\ UNCHANGED <<existing, files, panel, boxes, active, config, out, call>>

\* _new_root_changed
NewRootChanged(text) ==
    /\ panel = "open"
    /\ text # entry.new_root
    /\ entry' = [entry EXCEPT !.new_root = text]
    /\ tmp' = [tmp EXCEPT !.new_root = text]
    /\ last' = Quiet("changed", "", <<>>)
    /\ UNCHANGED <<existing, files, panel, boxes, active, config, out, call>>

-----------------------------------------------------------------------------
(* Export *)

NoDestination == "No destination path provided"
NotAbsolute == "Export path is not absolute"
UnableToExport == "Unable to export playlist"

\* _check_valid_inputs without its test for an empty destination
check_valid_inputs_no_empty_test(destination_path) ==
    IF ~isabs(destination_path) THEN <<NotAbsolute>>
    ELSE <<>>

\* _check_valid_inputs without its os.path.isabs test
check_valid_inputs_no_isabs_test(destination_path) ==
    IF destination_path = <<>> THEN <<NoDestination>>
    ELSE <<>>

\* _check_valid_inputs: the titles of the dialogs it shows; none when valid
check_valid_inputs(destination_path) ==
    IF destination_path = <<>> THEN <<NoDestination>>
    ELSE IF ~isabs(destination_path) THEN <<NotAbsolute>>
    ELSE <<>>

M3uSuffix == <<".", "m3u">>

\* save_playlist_to_m3u / save_query_to_m3u up to the call of __m3u_export:
\* the output path and the text to write, under the stored configuration cfg
m3u_job(ns, name, cfg) ==
    [path |-> PathJoin(cfg.dest, make_safe_name(name) \o M3uSuffix),
     text |-> m3u_text(get_song_files(CurrentSongs(ns, name),
                                      cfg.remove_root, cfg.new_root))]

\* the output files after path was opened "wb" and text written
Written(o, path, text) ==
    [p \in DOMAIN o \cup {path} |-> IF p = path THEN text ELSE o[p]]

\* __m3u_export(path, files), text being the text built from files; oerr are
\* the paths whose open fails.  res holds the files on disk, the dialogs
\* shown and the paths written so far.
m3u_export(res, path, text, oerr) ==
    IF path \in oerr
    THEN [res EXCEPT !.errors = Append(@, UnableToExport),
                     !.failed = Append(@, path)]
    ELSE [res EXCEPT !.out = Written(@, path, text),
                     !.written = Append(@, path)]

\* the loop over the jobs, given up after the first dialog
RECURSIVE m3u_export_all_stop_at_error(_, _, _)
m3u_export_all_stop_at_error(res, jobs, oerr) ==
    IF jobs = <<>> \/ res.errors # <<>> THEN res
    ELSE m3u_export_all_stop_at_error(
             m3u_export(res, Head(jobs).path, Head(jobs).text, oerr),
             Tail(jobs), oerr)

\* __m3u_export for each job in turn
RECURSIVE m3u_export_all(_, _, _)
m3u_export_all(res, jobs, oerr) ==
    IF jobs = <<>> THEN res
    ELSE m3u_export_all(m3u_export(res, Head(jobs).path, Head(jobs).text, oerr),
                        Tail(jobs), oerr)

\* the names _export_all finds enabled in namespace ns
Enabled(ns, rerr) == Kept(ns, files[ns], ns \in rerr)

\* _export_all: playlists first, then saved searches
export_all(cfg, rerr, oerr, op, oq) ==
    LET start == [out |-> out, errors |-> <<>>, written |-> <<>>, raised |-> "none",
                  failed |-> <<>>]
        pjobs == [k \in 1..Len(op) |-> m3u_job("playlists", op[k], cfg)]
        qjobs == [k \in 1..Len(oq) |-> m3u_job("queries", oq[k], cfg)]
        preadfails == ReadSync(files["playlists"], "playlists" \in rerr).none
        qreadfails == ReadSync(files["queries"], "queries" \in rerr).none
        afterp == m3u_export_all(start, pjobs, oerr)
    IN IF preadfails THEN [start EXCEPT !.raised = "TypeError"]
       ELSE IF qreadfails THEN [afterp EXCEPT !.raised = "TypeError"]
       ELSE m3u_export_all(afterp, qjobs, oerr)

\* _run_export with its three config.set calls moved after the validation
RunExport_validate_first(rerr, oerr) ==
    /\ panel = "open"
    /\ LET invalid == check_valid_inputs(entry.dest) IN
       IF invalid # <<>>
       THEN /\ last' = Report("export", "", <<>>, "none", invalid, <<>>, {}, {})
            /\ rerr = {} /\ oerr = {}
            /\ UNCHANGED <<out, config>>
       ELSE /\ config' = tmp
            /\ \E op \in Orders(Enabled("playlists", rerr)),
                  oq \in Orders(Enabled("queries", rerr)) :
                   \E res \in {export_all(config', rerr, oerr, op, oq)} :
                   /\ out' = res.out
                   /\ last' = [Report("export", "", <<>>, res.raised, res.errors,
                                      res.written, rerr, oerr)
                                  EXCEPT !.failed = res.failed]
    /\ UNCHANGED <<existing, files, panel, boxes, active, entry, tmp, call>>

\* _run_export
RunExport(rerr, oerr) ==
    /\ panel = "open"
    /\ config' = tmp
    /\ LET invalid == check_valid_inputs(entry.dest) IN
       IF invalid # <<>>
       THEN /\ last' = Report("export", "", <<>>, "none", invalid, <<>>, {}, {})
            /\ rerr = {} /\ oerr = {}
            /\ UNCHANGED out
       ELSE \E op \in Orders(Enabled("playlists", rerr)),
               oq \in Orders(Enabled("queries", rerr)) :
                \E res \in {export_all(config', rerr, oerr, op, oq)} :
                /\ out' = res.out
                /\ last' = [Report("export", "", <<>>, res.raised, res.errors,
                                   res.written, rerr, oerr)
                               EXCEPT !.failed = res.failed]
    /\ UNCHANGED <<existing, files, panel, boxes, active, entry, tmp, call>>

-----------------------------------------------------------------------------
(* The plugin in use *)

\* One saved search and one playlist, both called "a"
SmallWorld == [ns \in NS |-> {A}]

Init == InitWorld(SmallWorld)

\* Every handler.  Reads of the sync files and opens of the output files
\* succeed.
Next ==
    \/ PluginPreferences({})
    \/ \E ns \in NS, name \in Names : ToggleOn(ns, name, FALSE)
    \/ \E ns \in NS, name \in Names : ToggleOff(ns, name, FALSE)
    \/ \E ns \in NS, name \in Names : DeleteEntry(ns, name)
    \/ \E text \in DestTexts : DestinationPathChanged(text)
    \/ \E text \in RemoveRootTexts : RemoveRootChanged(text)
    \/ \E text \in NewRootTexts : NewRootChanged(text)
    \/ RunExport({}, {})

Spec == Init /\ [][Next]_vars

\* The check buttons: two saved searches and two playlists with the same
\* names, the panel opened and reopened, entries deleted in between.
PanelWorld == [ns \in NS |-> {A, B}]

NextPanel ==
    \/ PluginPreferences({})
    \/ \E ns \in NS, name \in Names : ToggleOn(ns, name, FALSE)
    \/ \E ns \in NS, name \in Names : ToggleOff(ns, name, FALSE)
    \/ \E ns \in NS, name \in Names : DeleteEntry(ns, name)

SpecPanel == InitWorld(PanelWorld) /\ [][NextPanel]_vars

\* The export: one saved search "a", playlists "a" and "b"; buttons are
\* switched on, the entries edited, the export button pressed.
ExportWorld == [ns \in NS |-> IF ns = "queries" THEN {A} ELSE {A, B}]

NextExport ==
    \/ PluginPreferences({})
    \/ \E ns \in NS, name \in Names : ToggleOn(ns, name, FALSE)
    \/ \E text \in DestTexts : DestinationPathChanged(text)
    \/ \E text \in RemoveRootTexts : RemoveRootChanged(text)
    \/ \E text \in NewRootTexts : NewRootChanged(text)
    \/ RunExport({}, {})

SpecExport == InitWorld(ExportWorld) /\ [][NextExport]_vars

\* The export under I/O faults: any read of an existing sync file and any
\* open of an output file may fail.
FaultPaths == {PathJoin(<<SEP, "dest">>, name \o M3uSuffix) : name \in {A, B}}

NextFaults ==
    \/ \E rerr \in SUBSET Readable : PluginPreferences(rerr)
    \/ \E ns \in NS, name \in Names :
          \E ioerror \in {FALSE, (ns \in Readable)} : ToggleOn(ns, name, ioerror)
    \/ \E text \in DestTexts : DestinationPathChanged(text)
    \/ \E rerr \in SUBSET Readable, oerr \in SUBSET FaultPaths :
          RunExport(rerr, oerr)

SpecFaults == InitWorld(ExportWorld) /\ [][NextFaults]_vars

\* The export after entries were deleted: one saved search and one
\* playlist, switched on, deleted in the application, then exported.
NextStale ==
    \/ PluginPreferences({})
    \/ \E ns \in NS, name \in Names : ToggleOn(ns, name, FALSE)
    \/ \E ns \in NS, name \in Names : DeleteEntry(ns, name)
    \/ \E text \in DestTexts : DestinationPathChanged(text)
    \/ RunExport({}, {})

SpecStale == InitWorld(SmallWorld) /\ [][NextStale]_vars

-----------------------------------------------------------------------------
(* One export run, statement by statement *)

\* The record call follows a press of the export button through
\* _run_export, _export_all and save_*_to_m3u: pc is the phase the handler
\* is in, stage the namespace _export_all works on, read whether the sync
\* list of that namespace was read, todo the enabled names still to export.
IdleRun ==
    [fn |-> "run", pc |-> "idle", stage |-> "none", read |-> FALSE, todo |-> <<>>,
     songs |-> <<>>, errors |-> <<>>, written |-> <<>>, failed |-> <<>>]

InitRun ==
    /\ Constructed(ExportWorld)
    /\ files = [ns \in NS |-> NoFile]
    /\ out = <<>>
    /\ call = IdleRun

\* the button is pressed: the three config.set calls of _run_export
Press ==
    /\ call.pc = "idle" /\ panel = "open"
    /\ config' = tmp
    /\ call' = [IdleRun EXCEPT !.pc = "validating"]
    /\ UNCHANGED <<existing, files, panel, boxes, active, entry, tmp, out, last>>

\* the handler has returned: what the run reports
Finished(c) ==
    [Report("export", "", <<>>, "none", c.errors, c.written, {}, {})
        EXCEPT !.failed = c.failed]

\* _check_valid_inputs taking every destination for valid
Validate_accepts_all ==
    /\ call.pc = "validating"
    /\ call' = [call EXCEPT !.pc = "resolving", !.stage = "playlists"]
    /\ UNCHANGED <<existing, files, panel, boxes, active, entry, tmp, config, out, last>>

\* _check_valid_inputs and the return of _run_export when it fails
Validate ==
    /\ call.pc = "validating"
    /\ LET invalid == check_valid_inputs(entry.dest) IN
       IF invalid # <<>>
       THEN /\ call' = IdleRun
            /\ last' = Finished([call EXCEPT !.errors = invalid])
       ELSE /\ call' = [call EXCEPT !.pc = "resolving", !.stage = "playlists"]
            /\ UNCHANGED last
    /\ UNCHANGED <<existing, files, panel, boxes, active, entry, tmp, config, out>>

\* where the handler goes when the names of a stage are used up: from the
\* playlists to the saved searches, from the saved searches back to the
\* main loop
AfterStage(c) ==
    IF c.stage = "playlists"
    THEN [c EXCEPT !.pc = "resolving", !.stage = "queries", !.read = FALSE,
                   !.todo = <<>>, !.songs = <<>>]
    ELSE IdleRun

\* _export_all reads the sync list of the stage and intersects it with the
\* existing names
ReadEnabled ==
    /\ call.pc = "resolving" /\ ~call.read
    /\ \E order \in Orders(Enabled(call.stage, {})) :
       \E c \in {[call EXCEPT !.read = TRUE, !.todo = order]} :
          IF order # <<>>
          THEN call' = c /\ UNCHANGED last
          ELSE /\ call' = AfterStage(c)
               /\ IF c.stage = "queries" THEN last' = Finished(c) ELSE UNCHANGED last
    /\ UNCHANGED <<existing, files, panel, boxes, active, entry, tmp, config, out>>

\* save_*_to_m3u collects the songs of the next name
Resolve ==
    /\ call.pc = "resolving" /\ call.read /\ call.todo # <<>>
    /\ call' = [call EXCEPT !.pc = "writing",
                            !.songs = CurrentSongs(call.stage, Head(call.todo))]
    /\ UNCHANGED <<existing, files, panel, boxes, active, entry, tmp, config, out, last>>

\* save_*_to_m3u builds the path and the records and calls __m3u_export
Write ==
    /\ call.pc = "writing"
    /\ \E path \in {PathJoin(config.dest, make_safe_name(Head(call.todo)) \o M3uSuffix)},
          text \in {m3u_text(get_song_files(call.songs, config.remove_root,
                                            config.new_root))} :
       \E res \in {m3u_export([out |-> out, errors |-> call.errors,
                               written |-> call.written, raised |-> "none",
                               failed |-> call.failed], path, text, {})} :
       \E c \in {[call EXCEPT !.todo = Tail(@), !.songs = <<>>,
                              !.errors = res.errors, !.written = res.written,
                              !.failed = res.failed]} :
          /\ out' = res.out
          /\ IF c.todo # <<>>
             THEN call' = [c EXCEPT !.pc = "resolving"] /\ UNCHANGED last
             ELSE /\ call' = AfterStage(c)
                  /\ IF c.stage = "queries" THEN last' = Finished(c)
                     ELSE UNCHANGED last
    /\ UNCHANGED <<existing, files, panel, boxes, active, entry, tmp, config>>

\* the statements of a run in progress
RunStep == Validate \/ ReadEnabled \/ Resolve \/ Write

\* the main loop dispatches a further event only when no handler runs
NextRun ==
    \/ call.pc = "idle" /\ PluginPreferences({})
    \/ call.pc = "idle" /\ \E ns \in NS, name \in Names : ToggleOn(ns, name, FALSE)
    \/ call.pc = "idle" /\ \E text \in DestTexts : DestinationPathChanged(text)
    \/ Press
    \/ Validate
    \/ ReadEnabled
    \/ Resolve
    \/ Write

\* a handler that was entered runs to its end: the code is synchronous
SpecRun == InitRun /\ [][NextRun]_vars /\ WF_vars(RunStep)

\* the same run, the two root entries edited as well
NextRunRoots ==
    \/ NextRun
    \/ call.pc = "idle" /\ \E text \in RemoveRootTexts : RemoveRootChanged(text)
    \/ call.pc = "idle" /\ \E text \in NewRootTexts : NewRootChanged(text)

SpecRunRoots == InitRun /\ [][NextRunRoots]_vars

-----------------------------------------------------------------------------
(* The functions called on their own *)

\* every list of at most n different elements of S
ListsOf(S, n) == UNION {Orders(T) : T \in {U \in SUBSET S : Cardinality(U) <= n}}

\* every list of at most n elements of S
RECURSIVE Tuples(_, _)
Tuples(S, n) ==
    IF n = 0 THEN {<<>>}
    ELSE Tuples(S, n - 1) \cup {Append(t, x) : t \in Tuples(S, n - 1), x \in S}

\* a sync file before the call: missing, empty, or holding an older list
OldFiles == {NoFile, File(<<>>), File(C)}

\* write_sync_* with a list of existing names, then read_sync_*; dir
\* tells whether the parent directory of the sync file exists
InitStore ==
    /\ Constructed([ns \in NS |-> Names])
    /\ out = <<>>
    /\ \E ns \in NS, old \in OldFiles, names \in ListsOf(Names, MaxNames),
          dir \in BOOLEAN :
          /\ old.exists => dir
          /\ files = [n \in NS |-> IF n = ns THEN old ELSE NoFile]
          /\ call = [fn |-> "store", pc |-> "start", ns |-> ns, names |-> names,
                     dir |-> dir, none |-> FALSE, result |-> <<>>]

StoreWrite ==
    /\ call.fn = "store" /\ call.pc = "start"
    /\ files' = [files EXCEPT ![call.ns] = WriteSync(@, call.names)]
    /\ call' = [call EXCEPT !.pc = "written",
                            !.dir = WriteSyncDir(files[call.ns], call.names, @)]
    /\ UNCHANGED <<existing, panel, boxes, active, entry, tmp, config, out, last>>

StoreRead ==
    /\ call.fn = "store" /\ call.pc = "written"
    /\ call' = [call EXCEPT !.pc = "read",
                            !.none = ReadSync(files[call.ns], FALSE).none,
                            !.result = ReadSync(files[call.ns], FALSE).list]
    /\ UNCHANGED <<existing, files, panel, boxes, active, entry, tmp, config, out, last>>

NextStore == StoreWrite \/ StoreRead

SpecStore == InitStore /\ [][NextStore]_vars

\* the characters of the names handed to _make_safe_name: a letter, an
\* accented letter, a combining mark, a ligature, characters Windows forbids
SafeChars == {"a", Eacute, Acute, Ligature, ":", "*", "?"}

\* _make_safe_name(name), then _make_safe_name of its result
InitSafeName ==
    /\ Constructed([ns \in NS |-> Names])
    /\ files = [ns \in NS |-> NoFile]
    /\ out = <<>>
    /\ \E name \in Tuples(SafeChars, MaxNameLen) :
          call = [fn |-> "safe_name", pc |-> "start", name |-> name,
                  result |-> <<>>, again |-> <<>>]

SafeName ==
    /\ call.fn = "safe_name" /\ call.pc = "start"
    /\ call' = [call EXCEPT !.pc = "once", !.result = make_safe_name(call.name)]
    /\ UNCHANGED <<existing, files, panel, boxes, active, entry, tmp, config, out, last>>

SafeNameAgain ==
    /\ call.fn = "safe_name" /\ call.pc = "once"
    /\ call' = [call EXCEPT !.pc = "twice", !.again = make_safe_name(call.result)]
    /\ UNCHANGED <<existing, files, panel, boxes, active, entry, tmp, config, out, last>>

NextSafeName == SafeName \/ SafeNameAgain

SpecSafeName == InitSafeName /\ [][NextSafeName]_vars

\* records as __get_song_files builds them: a file with performers and
\* title, a stream of unknown length, a file with an empty title
Record1 == [path |-> <<SEP, "a", SEP, "b", ".", "mp3">>, title |-> <<"X", " - ", "Y">>,
            length |-> 180]
Record2 == [path |-> <<"http", ":", SEP, SEP, "radio">>, title |-> <<"Radio">>,
            length |-> -1]
Record3 == [path |-> <<"c", ".", "mp3">>, title |-> <<>>, length |-> 0]
Records == {Record1, Record2, Record3}

M3uPath == <<SEP, "dest", SEP, "a", ".", "m3u">>

\* __m3u_export(M3uPath, records), the file being absent or present before
InitM3u ==
    /\ Constructed([ns \in NS |-> Names])
    /\ files = [ns \in NS |-> NoFile]
    /\ out \in {<<>>, Written(<<>>, M3uPath, <<"old">>)}
    /\ \E records \in Tuples(Records, MaxRecords) :
          call = [fn |-> "m3u", pc |-> "start", path |-> M3uPath,
                  records |-> records]

M3uExport(oerr) ==
    /\ call.fn = "m3u" /\ call.pc = "start"
    /\ \E res \in {m3u_export([out |-> out, errors |-> <<>>, written |-> <<>>,
                               raised |-> "none", failed |-> <<>>],
                              call.path, m3u_text(call.records), oerr)} :
          /\ out' = res.out
          /\ last' = [Report("m3u_export", "", <<>>, res.raised, res.errors,
                             res.written, {}, oerr)
                         EXCEPT !.failed = res.failed]
    /\ call' = [call EXCEPT !.pc = "done"]
    /\ UNCHANGED <<existing, files, panel, boxes, active, entry, tmp, config>>

NextM3u == \E oerr \in SUBSET {M3uPath} : M3uExport(oerr)

SpecM3u == InitM3u /\ [][NextM3u]_vars

\* a fourth song, directly under /music
Song4 == [uri |-> FALSE, filename |-> <<SEP, "music", SEP, "x", ".", "mp3">>,
          title |-> <<"Four">>, people |-> <<>>,
          titleversion |-> <<"Four">>, length |-> 1]

RemoveRoots ==
    {<<>>, <<SEP, "music">>, <<SEP, "music", SEP>>, <<SEP, "music", SEP, "rock">>,
     <<SEP, "other">>, <<"music">>}

NewRoots == {<<>>, <<SEP, "new">>, <<SEP, "new", SEP>>, <<"new">>}

\* __get_song_files for one song under given roots
InitRewrite ==
    /\ Constructed([ns \in NS |-> Names])
    /\ files = [ns \in NS |-> NoFile]
    /\ out = <<>>
    /\ \E song \in ToSet(Library) \cup {Song4}, r \in RemoveRoots, n \in NewRoots :
          call = [fn |-> "rewrite", pc |-> "start", song |-> song,
                  remove_root |-> r, new_root |-> n, result |-> <<>>]

Rewrite ==
    /\ call.fn = "rewrite" /\ call.pc = "start"
    /\ call' = [call EXCEPT
                  !.pc = "done",
                  !.result = get_song_files(<<call.song>>, call.remove_root,
                                            call.new_root)[1]]
    /\ UNCHANGED <<existing, files, panel, boxes, active, entry, tmp, config, out, last>>

NextRewrite == Rewrite

SpecRewrite == InitRewrite /\ [][NextRewrite]_vars

\* the text of a file that holds one name per line, every line ended by "\n"
LineFile(names) == File(Join(<<>>, [i \in 1..Len(names) |-> names[i] \o <<NL>>]))

\* read_sync_* of a file of lines, and the two intersections that use what
\* it returns: list(set(existing).intersection(sync_list))
InitLoad ==
    /\ Constructed([ns \in NS |-> Names])
    /\ out = <<>>
    /\ \E ns \in NS, names \in ListsOf(Names, MaxNames) :
          /\ files = [n \in NS |-> IF n = ns THEN LineFile(names) ELSE NoFile]
          /\ call = [fn |-> "load", pc |-> "start", ns |-> ns, names |-> names,
                     result |-> <<>>, enabled |-> {}]

LoadRead ==
    /\ call.fn = "load" /\ call.pc = "start" /\ panel = "closed"
    /\ call' = [call EXCEPT !.pc = "read",
                            !.result = ReadSync(files[call.ns], FALSE).list]
    /\ UNCHANGED <<existing, files, panel, boxes, active, entry, tmp, config, out, last>>

\* the panel is opened on the file of lines
LoadOpen ==
    /\ call.fn = "load" /\ call.pc \in {"start", "read"} /\ panel = "closed"
    /\ PluginPreferences({})

\* _export_all lines 422-434: the names it is about to export
LoadExport ==
    /\ call.fn = "load" /\ call.pc \in {"start", "read"} /\ panel = "closed"
    /\ call' = [call EXCEPT !.pc = "exported", !.enabled = Enabled(call.ns, {})]
    /\ UNCHANGED <<existing, files, panel, boxes, active, entry, tmp, config, out, last>>

NextLoad == LoadRead \/ LoadOpen \/ LoadExport

SpecLoad == InitLoad /\ [][NextLoad]_vars

-----------------------------------------------------------------------------
(* Properties of the check buttons and the sync lists (SpecPanel) *)

\* what read_sync_queries / read_sync_playlists returns now
Loaded(ns) == ReadSync(files[ns], FALSE).list

\* the sync file of ns is what write_sync_* writes for the names S
Holds(file, S) == file.exists /\ \E l \in Orders(S) : file.text = Join(SyncSep, l)

\* C1: right after the check button of a name was switched on, the sync
\* list read back from the file of that namespace contains the name, whatever
\* the file held before.
C1_ToggleOnIsRead ==
    last.op = "toggle_on" => last.name \in ToSet(Loaded(last.ns))

\* C2: switching a check button off raises nothing and leaves the sync list
\* of the namespace as it was, less the name.
C2_ToggleOffRemoves ==
    [][last'.op = "toggle_off" =>
          /\ last'.raised = "none"
          /\ ToSet(ReadSync(files'[last'.ns], FALSE).list)
                = ToSet(Loaded(last'.ns)) \ {last'.name}]_vars

\* C4: when the panel opens on a sync file that holds the names S, exactly
\* the check buttons of the names of S that still exist are active and the
\* file is saved again holding exactly those names.
C4_OpenReconciles ==
    [][(last'.op = "open" /\ last'.raised = "none") =>
          \A ns \in NS, S \in SUBSET Names :
              Holds(files[ns], S) =>
                  /\ active'[ns] = S \cap existing[ns]
                  /\ Holds(files'[ns], S \cap existing[ns])]_vars

-----------------------------------------------------------------------------
(* Properties of the sync store (SpecStore) *)

\* C3: writing a list of existing names with write_sync_* and then reading
\* the file with read_sync_* gives back every name that was written, so the
\* intersection of the result with the written names is all of them.
C3_RoundTrip ==
    (call.fn = "store" /\ call.pc = "read") =>
        ToSet(call.result) \cap ToSet(call.names) = ToSet(call.names)

-----------------------------------------------------------------------------
(* Properties of the export button (SpecExport) *)

\* some search or playlist is found enabled by _export_all
SomeEnabled == \E ns \in NS : Enabled(ns, {}) # {}

\* C5: pressing the export button while the destination entry is empty shows
\* exactly one dialog, titled "No destination path provided", raises nothing
\* and writes no output file, whatever is enabled.
C5_EmptyDestination ==
    [][(last'.op = "export" /\ entry.dest = <<>>) =>
          /\ last'.errors = <<"No destination path provided">>
          /\ last'.raised = "none"
          /\ last'.written = <<>>
          /\ out' = out]_vars

C5_Witness ==
    /\ last.op = "export" /\ entry.dest = <<>>
    /\ last.errors = <<"No destination path provided">>
    /\ SomeEnabled

\* C6: pressing the export button while the destination entry holds a
\* non-empty path that is not absolute (such as "./path") shows exactly one
\* dialog, titled "Export path is not absolute", raises nothing and writes no
\* output file, whatever is enabled.
C6_RelativeDestination ==
    [][(last'.op = "export" /\ entry.dest # <<>> /\ Head(entry.dest) # "/") =>
          /\ last'.errors = <<"Export path is not absolute">>
          /\ last'.raised = "none"
          /\ last'.written = <<>>
          /\ out' = out]_vars

C6_Witness ==
    /\ last.op = "export" /\ entry.dest = <<".", "/", "path">>
    /\ last.errors = <<"Export path is not absolute">>
    /\ SomeEnabled

\* the destination entry fails the validation of an export run
FailsValidation == entry.dest = <<>> \/ Head(entry.dest) # "/"

\* C7, as stated: an export run that fails validation leaves the stored
\* configuration values, both sync files and the output files as they were
\* before the button was pressed.
C7_NoSideEffects ==
    [][(last'.op = "export" /\ FailsValidation) =>
          /\ config' = config
          /\ files' = files
          /\ out' = out]_vars

\* C7, amended: an export run that fails validation leaves both sync files
\* and the output files as they were, and stores the three values last typed
\* in the panel (destination path, remove-root, new-root) as the
\* configuration values.
C7_SavesConfigOnly ==
    [][(last'.op = "export" /\ FailsValidation) =>
          /\ config' = tmp
          /\ files' = files
          /\ out' = out]_vars

\* a failed run has changed the stored remove-root
C7_Witness ==
    /\ last.op = "export" /\ FailsValidation /\ last.errors # <<>>
    /\ config.remove_root = <<"/", "music">>
    /\ SomeEnabled

\* the file name an entry called name is exported to under destination d
OutputPath(d, name) == d \o <<"/">> \o name \o <<".", "m3u">>

\* the M3U text of the song list of entry name of namespace ns
SongListText(ns, name) ==
    m3u_text(get_song_files(CurrentSongs(ns, name), config.remove_root,
                            config.new_root))

\* C8: in an export run with a valid destination where every open succeeds,
\* the number of output files written is the number of enabled playlists
\* plus the number of enabled searches, and afterwards the file of each
\* enabled entry holds that entry's song list, also when a playlist and a
\* search share a name.
C8_OneFilePerEntry ==
    (/\ last.op = "export" /\ last.errors = <<>> /\ last.raised = "none"
     /\ ~FailsValidation) =>
        /\ Cardinality(ToSet(last.written))
              = Cardinality(Enabled("playlists", {}))
                  + Cardinality(Enabled("queries", {}))
        /\ \A ns \in NS : \A name \in Enabled(ns, {}) :
              /\ OutputPath(entry.dest, name) \in DOMAIN out
              /\ out[OutputPath(entry.dest, name)] = SongListText(ns, name)

-----------------------------------------------------------------------------
(* Properties of the M3U text (SpecM3u) *)

\* the lines of the file __m3u_export wrote
WrittenLines == ReadLines(out[call.path])

\* decimal text of the lengths of the records
Decimal(n) ==
    IF n = 180 THEN <<"1", "8", "0">>
    ELSE IF n = -1 THEN <<"-", "1">>
    ELSE <<"0">>

\* C9: for every sequence of records, a successful __m3u_export writes the
\* header line #EXTM3U followed, for each record in input order, by the two
\* lines "#EXTINF:<duration>,<title>" and "<path>", each ended by a newline:
\* n records give 1 + 2n lines and no record gives the header line alone.
C9_Document ==
    (call.fn = "m3u" /\ call.pc = "done" /\ last.errors = <<>>) =>
        /\ call.path \in DOMAIN out
        /\ Len(WrittenLines) = 1 + 2 * Len(call.records)
        /\ WrittenLines[1] = <<"#EXTM3U", "\n">>
        /\ \A i \in 1..Len(call.records) :
              /\ WrittenLines[2 * i] =
                    <<"#EXTINF:">> \o Decimal(call.records[i].length) \o <<",">>
                    \o call.records[i].title \o <<"\n">>
              /\ WrittenLines[2 * i + 1] = call.records[i].path \o <<"\n">>
        /\ call.records = <<>> => out[call.path] = <<"#EXTM3U", "\n">>
        /\ call.records = <<Record1>> =>
              out[call.path] = <<"#EXTM3U", "\n", "#EXTINF:", "1", "8", "0", ",",
                                 "X", " - ", "Y", "\n",
                                 "/", "a", "/", "b", ".", "mp3", "\n">>

C9_Witness ==
    /\ call.fn = "m3u" /\ call.pc = "done" /\ last.errors = <<>>
    /\ Len(call.records) >= 2
    /\ Len(WrittenLines) = 1 + 2 * Len(call.records)

-----------------------------------------------------------------------------
(* Properties of the path rewrite (SpecRewrite) *)

\* q is a relative path that leads from directory r to p
RelativeTo(q, p, r) ==
    /\ q # <<>> /\ Head(q) # "/"
    /\ normpath(PathJoin(abspath(r), q)) = normpath(p)

\* n joined with the relative path q
Joined(n, q) == IF EndsWith(n, <<"/">>) THEN n \o q ELSE n \o <<"/">> \o q

\* C10: the rewritten path of a non-stream song with path p, under
\* remove_root r and new_root n, is p itself when r is empty, whatever n is;
\* the path of p relative to r when r is not empty and n is; and n joined
\* with the path of p relative to r when neither is empty, so
\* "/music/rock/song.mp3" under "/music" and "/new" gives "/new/rock/song.mp3".
C10_Rewrite ==
    (call.fn = "rewrite" /\ call.pc = "done" /\ ~call.song.uri) =>
        LET p == call.song.filename
            r == call.remove_root
            n == call.new_root
            res == call.result.path
        IN /\ r = <<>> => res = p
           /\ (r # <<>> /\ n = <<>>) => RelativeTo(res, p, r)
           /\ (r # <<>> /\ n # <<>>) =>
                 \E k \in 1..Len(res) :
                    /\ RelativeTo(SubSeq(res, k, Len(res)), p, r)
                    /\ res = Joined(n, SubSeq(res, k, Len(res)))
           /\ (p = <<"/", "music", "/", "rock", "/", "song", ".", "mp3">>
                 /\ r = <<"/", "music">>) =>
                 /\ n = <<>> => res = <<"rock", "/", "song", ".", "mp3">>
                 /\ n = <<"/", "new">> =>
                       res = <<"/", "new", "/", "rock", "/", "song", ".", "mp3">>

C10_Witness ==
    /\ call.fn = "rewrite" /\ call.pc = "done"
    /\ call.song.filename = <<"/", "music", "/", "rock", "/", "song", ".", "mp3">>
    /\ call.remove_root = <<"/", "music">> /\ call.new_root = <<"/", "new">>
    /\ call.result.path = <<"/", "new", "/", "rock", "/", "song", ".", "mp3">>

-----------------------------------------------------------------------------
(* Properties under I/O faults (SpecFaults) *)

\* the output file at path is as it was before the step
Untouched(path) ==
    /\ (path \in DOMAIN out') = (path \in DOMAIN out)
    /\ path \in DOMAIN out => out'[path] = out[path]

\* C11: in an export run, an entry whose output file cannot be opened gets
\* an "Unable to export playlist" dialog naming its path and its file is left
\* alone, and every other enabled playlist and saved search of the run still
\* has its file written: the run does not stop at the first failure.
C11_OpenFailureIsolated ==
    [][(last'.op = "export" /\ ~FailsValidation /\ last'.raised = "none") =>
          /\ Len(last'.errors) = Len(last'.failed)
          /\ \A k \in 1..Len(last'.errors) :
                last'.errors[k] = "Unable to export playlist"
          /\ ToSet(last'.failed) \subseteq last'.oerr
          /\ \A ns \in NS : \A name \in Enabled(ns, {}) :
                LET path == OutputPath(entry.dest, name) IN
                IF path \in last'.oerr
                THEN /\ path \in ToSet(last'.failed)
                     /\ path \notin ToSet(last'.written)
                     /\ Untouched(path)
                ELSE /\ path \in ToSet(last'.written)
                     /\ path \in DOMAIN out'
                     /\ Head(out'[path]) = "#EXTM3U"]_vars

\* the playlist's file, opened first, failed and the search's was written
C11_Witness ==
    /\ last.op = "export" /\ last.raised = "none"
    /\ Enabled("playlists", {}) = {<<"b">>} /\ Enabled("queries", {}) = {<<"a">>}
    /\ last.oerr = {OutputPath(entry.dest, <<"b">>)}
    /\ last.failed = <<OutputPath(entry.dest, <<"b">>)>>
    /\ last.written = <<OutputPath(entry.dest, <<"a">>)>>

\* C12: when the sync file of a namespace exists and its read fails with an
\* I/O error, the panel open, the toggle or the export that asked for the
\* list takes it as empty and ends without raising an exception.
C12_ReadErrorIsEmpty ==
    (last.op \in {"open", "toggle_on", "export"} /\ last.rerr # {}) =>
        last.raised = "none"

-----------------------------------------------------------------------------
(* Properties of the phases of an export run (SpecRun) *)

\* validation comes first: a run starts from the idle main loop with the
\* validation, and before the validation has passed no song list is
\* resolved and no output file is written
ValidationFirst ==
    /\ call'.pc = "validating" => call.pc = "idle"
    /\ call.pc \in {"idle", "validating"} =>
          /\ out' = out
          /\ call'.pc # "writing"
          /\ call'.songs = <<>>
    /\ (call.pc \in {"idle", "validating"} /\ call'.pc = "resolving") =>
          (call.pc = "validating" /\ ~FailsValidation)

\* a failed validation leads straight back to the idle main loop
FailureToIdle ==
    (call.pc = "validating" /\ FailsValidation) =>
        (call'.pc = "idle" /\ out' = out)

\* a song list is resolved only while no output file of the run was opened
ResolvingBeforeWriting ==
    (call.pc = "resolving" /\ call'.pc = "writing") =>
        (call.written = <<>> /\ call.failed = <<>>)

\* every output file is opened in a writing step, and every writing step
\* is entered from the resolving step of the same entry
OneEntryAtATime ==
    /\ (out' # out \/ Len(call'.written) > Len(call.written)) =>
          call.pc = "writing"
    /\ call'.pc = "writing" =>
          (call.pc = "resolving" /\ call'.todo = call.todo /\ call.todo # <<>>)

\* C13, as stated: every export run follows the phase order Idle,
\* Validating, Resolving, Writing, Idle: validation precedes any resolving
\* and writing, a failed validation leads straight back to Idle, and the
\* resolving of the song lists precedes the writing of the files.
C13_PhaseOrder ==
    [][ValidationFirst /\ FailureToIdle /\ ResolvingBeforeWriting]_vars

\* C13, amended: validation precedes any resolving and writing, a failed
\* validation leads straight back to Idle, after a passed validation the
\* enabled entries are resolved and written one at a time (Resolving and
\* Writing alternate), and every run ends back in Idle.
C13_RunOrder ==
    /\ [][ValidationFirst /\ FailureToIdle /\ OneEntryAtATime]_vars
    /\ (call.pc # "idle") ~> (call.pc = "idle")

\* the run has written the playlist's file and is about to resolve the
\* songs of the saved search
C13_Witness ==
    /\ call.fn = "run" /\ call.pc = "resolving" /\ call.read
    /\ call.stage = "queries" /\ call.todo # <<>>
    /\ call.written # <<>>

-----------------------------------------------------------------------------
(* Properties of the configuration values (SpecExport) *)

-----------------------------------------------------------------------------
(* Properties of reading and saving an empty list (SpecStore) *)

\* C15: read_sync_* returns an empty sequence when the sync file of the
\* namespace does not exist, and does not create the file.
C15_ReadMissing ==
    [][(call.pc = "written" /\ call'.pc = "read" /\ ~files[call.ns].exists) =>
          /\ ~call'.none
          /\ call'.result = <<>>
          /\ ~files'[call.ns].exists
          /\ call'.dir = call.dir]_vars

\* a missing file was read, its directory missing as well
C15_Witness ==
    /\ call.fn = "store" /\ call.pc = "read"
    /\ ~files[call.ns].exists /\ ~call.dir
    /\ ~call.none /\ call.result = <<>>

\* C16: write_sync_* with an empty list while the file does not exist writes
\* nothing: the file still does not exist and no parent directory is
\* created.  When the file exists, saving an empty list overwrites it and a
\* later read_sync_* yields no names.
C16_SaveEmpty ==
    /\ [][(call.pc = "start" /\ call'.pc = "written" /\ call.names = <<>>) =>
             IF ~files[call.ns].exists
             THEN /\ ~files'[call.ns].exists
                  /\ call'.dir = call.dir
             ELSE /\ files'[call.ns].exists
                  /\ files'[call.ns].text = <<>>]_vars
    /\ [][(call.pc = "written" /\ call'.pc = "read" /\ call.names = <<>>) =>
             (~call'.none /\ call'.result = <<>>)]_vars

\* an empty list was saved over a file that held a name, and read back
C16_Witness ==
    /\ call.fn = "store" /\ call.pc = "read" /\ call.names = <<>>
    /\ files[call.ns] = [exists |-> TRUE, text |-> <<>>]
    /\ call.result = <<>>

-----------------------------------------------------------------------------
(* Properties of the file names (SpecSafeName) *)

\* what becomes of one character when only marks and characters Windows
\* forbids are dropped
MarksAndBadDropped(c) ==
    IF c = "e+acute" THEN <<"e">>
    ELSE IF c \in {"+acute", ":", "*", "?"} THEN <<>>
    ELSE <<c>>

\* the same, a ligature being replaced by the letters it stands for
Decomposed(c) ==
    IF c = "fi-ligature" THEN <<"f", "i">> ELSE MarksAndBadDropped(c)

\* C17, as stated: _make_safe_name returns the name with every combining
\* mark dropped and its base character kept and every character Windows
\* forbids removed, all other characters kept in their order; applied to
\* its own result it changes nothing.
C17_SafeName ==
    (call.fn = "safe_name" /\ call.pc \in {"once", "twice"}) =>
        /\ call.result =
              Join(<<>>, [i \in 1..Len(call.name) |-> MarksAndBadDropped(call.name[i])])
        /\ call.pc = "twice" => call.again = call.result

\* C17, amended: _make_safe_name returns the name with every combining mark
\* dropped and its base character kept, every character Windows forbids
\* removed, and every character that has a compatibility decomposition
\* (such as the ligature fi) replaced by the characters it decomposes to;
\* all other characters are kept, in the original order; applied to its
\* own result it changes nothing.
C17_SafeNameNfkd ==
    (call.fn = "safe_name" /\ call.pc \in {"once", "twice"}) =>
        /\ call.result =
              Join(<<>>, [i \in 1..Len(call.name) |-> Decomposed(call.name[i])])
        /\ call.pc = "twice" => call.again = call.result

C17_Witness ==
    /\ call.fn = "safe_name" /\ call.pc = "twice"
    /\ call.name = <<"fi-ligature", "e+acute", ":">>
    /\ call.result = <<"f", "i", "e">>
    /\ call.again = <<"f", "i", "e">>

-----------------------------------------------------------------------------
(* Properties of the sync lists across an export (SpecStale) *)

\* C18: an export run intersects each sync list it loads with the names
\* that exist and re-saves the result at once, so that after the run each
\* sync file holds only names that exist.
C18_ExportReconciles ==
    [][(last'.op = "export" /\ ~FailsValidation) =>
          \A ns \in NS :
              /\ files[ns].exists => Holds(files'[ns], Enabled(ns, {}))
              /\ ToSet(ReadSync(files'[ns], FALSE).list) \subseteq existing'[ns]]_vars

-----------------------------------------------------------------------------
(* Properties of the lines written for each song (SpecRunRoots) *)

\* the lines of the file the writing step of the run has just written
StepLines == ReadLines(out'[OutputPath(config.dest, Head(call.todo))])

\* the path rewrite of C10: p itself without remove_root r, else p relative
\* to r, joined with new_root n if there is one
Rewritten(p, r, n) ==
    IF r = <<>> THEN p
    ELSE IF n = <<>> THEN relpath(p, r)
    ELSE PathJoin(n, relpath(p, r))

\* C19, as stated: for every song of every exported list, streams included,
\* the path line written to the M3U file is the path of the song rewritten
\* with the configured remove-root and new-root.
C19_EveryPathRewritten ==
    [][call.pc = "writing" =>
          \A i \in 1..Len(call.songs) :
              StepLines[2 * i + 1] =
                  Rewritten(call.songs[i].filename, config.remove_root,
                            config.new_root) \o <<"\n">>]_vars

\* C19, amended: for every song of every exported list that is not a
\* stream, the path line written is the path of the song rewritten with the
\* configured remove-root and new-root; for a stream ("~uri") song it is
\* the path of the song unchanged.
C19_FilePathsRewritten ==
    [][call.pc = "writing" =>
          \A i \in 1..Len(call.songs) :
              StepLines[2 * i + 1] =
                  (IF call.songs[i].uri THEN call.songs[i].filename
                   ELSE Rewritten(call.songs[i].filename, config.remove_root,
                                  config.new_root)) \o <<"\n">>]_vars

\* a file holds a rewritten path and the unchanged path of a stream
C19_Witness ==
    /\ call.fn = "run" /\ call.written # <<>>
    /\ config.remove_root = <<"/", "music">> /\ config.new_root = <<"/", "new">>
    /\ \E path \in DOMAIN out :
          /\ Len(ReadLines(out[path])) = 7
          /\ ReadLines(out[path])[3] =
                <<"/", "new", "/", "rock", "/", "song", ".", "mp3", "\n">>
          /\ ReadLines(out[path])[5] = <<"http", ":", "/", "/", "radio", "\n">>

\* decimal text of the lengths of the songs of the library
LengthText(n) ==
    IF n = 180 THEN <<"1", "8", "0">>
    ELSE IF n = 7 THEN <<"7">>
    ELSE IF n = 0 THEN <<"0">>
    ELSE <<"-", "1">>

\* the duration the #EXTINF line holds: the text between ":" and ","
Duration(line) == SubSeq(line, 2, Kth(Cuts(line, ","), 1) - 1)

\* C20: for every song of an exported list, the duration written in its
\* #EXTINF line is -1 if and only if the song is a stream; for every other
\* song it is the length of the song in whole seconds.
C20_Duration ==
    [][call.pc = "writing" =>
          \A i \in 1..Len(call.songs) :
              /\ Head(StepLines[2 * i]) = "#EXTINF:"
              /\ (Duration(StepLines[2 * i]) = <<"-", "1">>) = call.songs[i].uri
              /\ ~call.songs[i].uri =>
                    Duration(StepLines[2 * i]) = LengthText(call.songs[i].length)]_vars

\* the saved search's file holds a stream and a file of seven seconds
C20_Witness ==
    /\ call.fn = "run" /\ call.written # <<>>
    /\ \E path \in DOMAIN out :
          /\ Len(ReadLines(out[path])) = 5
          /\ Duration(ReadLines(out[path])[2]) = <<"-", "1">>
          /\ Duration(ReadLines(out[path])[4]) = <<"7">>

-----------------------------------------------------------------------------
(* Properties of the order of the entries of a file (SpecRunRoots) *)

\* the songs of the source collection of the entry the run is writing: the
\* playlist as it is, or the songs of the library the saved search matches
SourceSongs ==
    LET name == Head(call.todo)
        matches(song) == QuerySearch(name, song)
    IN IF call.stage = "playlists" THEN PlaylistSongs(name)
       ELSE SelectSeq(Library, matches)

\* the path line that tells which song an entry of a file stands for
PathLine(song) ==
    (IF song.uri THEN song.filename
     ELSE Rewritten(song.filename, config.remove_root, config.new_root))
    \o <<"\n">>

\* C21: the entries of an output file are the songs of the source
\* collection, in its order, none dropped or merged: the i-th entry of a
\* playlist's file is the i-th song of the playlist, a song that occurs k
\* times occurring k times; the entries of a saved search's file are the
\* songs of the library that match, in library order.
C21_SourceOrder ==
    [][call.pc = "writing" =>
          /\ Len(StepLines) = 1 + 2 * Len(SourceSongs)
          /\ \A i \in 1..Len(SourceSongs) :
                StepLines[2 * i + 1] = PathLine(SourceSongs[i])]_vars

\* the file of playlist "a" holds its first song twice, the stream between
C21_Witness ==
    /\ call.fn = "run" /\ call.written # <<>>
    /\ \E path \in DOMAIN out :
          LET lines == ReadLines(out[path]) IN
             /\ Len(lines) = 7
             /\ lines[3] = lines[7]
             /\ lines[3] # lines[5]
             /\ lines[5] = PathLine(Song2)

-----------------------------------------------------------------------------
(* Properties of loading a file of lines (SpecLoad) *)

\* C22: loading a sync file that holds one name per line, every line ended
\* by a newline, returns exactly those names with no line terminator
\* attached, so that the intersection with the existing names, at panel
\* open and at export, keeps every one of them.
C22_LoadedNames ==
    call.fn = "load" =>
        /\ call.pc = "read" => call.result = call.names
        /\ last.op = "open" => active[call.ns] = ToSet(call.names)
        /\ call.pc = "exported" => call.enabled = ToSet(call.names)

-----------------------------------------------------------------------------
(* Properties of the sync list as a set (SpecPanel) *)

\* how many times the text of a sync file holds a name
Occurrences(text, name) ==
    Cardinality({i \in 1..Len(text) :
                    /\ i + Len(name) - 1 <= Len(text)
                    /\ SubSeq(text, i, i + Len(name) - 1) = name})

\* C23: the persisted sync list of a namespace is a set: whatever panel
\* opens, switchings on and switchings off came before (a switching on after
\* a switching off of the same name among them), the sync file holds no name
\* more than once.
C23_NoNameTwice ==
    \A ns \in NS, name \in Names : Occurrences(files[ns].text, name) <= 1

\* C24: once the panel is open, after it was opened and after every toggle
\* that ran to its end, the names whose check button is active are the names
\* that loading the sync list of the namespace returns.
C24_ActiveIsLoaded ==
    (panel = "open" /\ last.op \in {"open", "toggle_on", "toggle_off"}
        /\ last.raised = "none") =>
        \A ns \in NS : active[ns] = ToSet(Loaded(ns))

-----------------------------------------------------------------------------
(* Properties of the two namespaces (SpecPanel) *)

\* the other namespace
Other(ns) == CHOOSE n \in NS : n # ns

\* C25: the namespaces are independent: a toggle of a saved search leaves the
\* sync-playlists file as it is and a toggle of a playlist leaves the
\* sync-queries file as it is, also when a search and a playlist have the
\* same name; what a switching on saves is the list read from the file of
\* its own namespace, with the name appended.
C25_Independent ==
    [][last'.op \in {"toggle_on", "toggle_off"} =>
          /\ files'[Other(last'.ns)] = files[Other(last'.ns)]
          /\ (last'.op = "toggle_on" /\ last'.raised = "none") =>
                files'[last'.ns] =
                    File(Join(SyncSep, Append(Loaded(last'.ns), last'.name)))]_vars

\* saved search "a" was switched on while a playlist "a" exists with its
\* button off, and the sync-playlists file still holds only "b"
C25_Witness ==
    /\ last.op = "toggle_on" /\ last.ns = "queries" /\ last.name = A
    /\ files["queries"] = File(A)
    /\ A \in boxes["playlists"] \ active["playlists"]
    /\ files["playlists"] = File(B)

====
